---- MODULE Spec2Model ----
(***************************************************************************)
(* tutorials/lunar_lander/lunar_lander.ipynb of Pearl: the code cells of   *)
(* the notebook, run in order by one kernel.  A cell is a straight line of *)
(* statements; a statement that calls into the library either returns or   *)
(* raises, and a raise ends the cell (the notebook has no try/except).     *)
(* The kernel keeps its globals after a failed cell, and the following     *)
(* cell may still be run.                                                   *)
(*                                                                         *)
(* Two specifications:                                                     *)
(*   Spec      the cells, with online_learning as one call that returns    *)
(*             the record of episodic returns;                             *)
(*   LoopSpec  the inside of one online_learning call (episodes, steps,    *)
(*             the replay buffer, the learn calls), with the call's flags  *)
(*             and buffer kind read from the notebook's cells and its      *)
(*             numbers scaled down.                                        *)
(***************************************************************************)
EXTENDS Integers, Sequences, FiniteSets, TLC

VARIABLES
    pc,          \* index in Program of the next statement to execute
    env_str,     \* the global env_str ("" before the first assignment)
    kernel,      \* the other globals: name -> object reference (0: unbound)
    envs,        \* every GymEnvironment constructed: [env_str, open, cell]
    networks,    \* every VanillaQValueNetwork constructed: [env, cell]
    agents,      \* every PearlAgent constructed
    calls,       \* every online_learning invocation, in order
    dirs,        \* directories that exist
    files,       \* files written by torch.save: [dir, name, series]
    saves,       \* log of the torch.save calls that wrote a file
    plots,       \* log of the plt.plot calls
    failed,      \* statements that raised: [cell, line, op]
    lp           \* the state of one online_learning call (LoopSpec)

vars == <<pc, env_str, kernel, envs, networks, agents, calls, dirs, files,
          saves, plots, failed, lp>>

nbvars == <<pc, env_str, kernel, envs, networks, agents, calls, dirs, files,
            saves, plots, failed>>

(***************************************************************************)
(* The statements of the code cells.  cell is the notebook's cell index,   *)
(* line the line of the .ipynb file the statement starts at.               *)
(***************************************************************************)
NoArg == [none |-> TRUE]

Stmt(cell, line, op, arg) == [cell |-> cell, line |-> line, op |-> op, arg |-> arg]

\* PearlAgent(policy_learner=<learner>(...), replay_buffer=<buffer>(<capacity>))
AgentArg(var, learner, buffer, capacity, network) ==
    [var |-> var, learner |-> learner, buffer |-> buffer,
     capacity |-> capacity, network |-> network]

\* <var> = online_learning(agent=<agent>, env=env, number_of_episodes=..., ...)
\* learn_every_k_steps = 0: the argument is not passed
TrainArg(var, agent, number_of_episodes, record_period, learn_after_episode, learn_every_k_steps) ==
    [var |-> var, agent |-> agent, number_of_episodes |-> number_of_episodes,
     record_period |-> record_period,
     learn_after_episode |-> learn_after_episode,
     learn_every_k_steps |-> learn_every_k_steps]

\* torch.save(<var>["return"], os.path.join(env_str, <name>)); plt.plot(<var>["return"])
InfoArg(var, name) == [var |-> var, name |-> name]

\* Cell12 as it would be with the last statement, os.makedirs, left out.
Cell12NoMakedirs ==
    << Stmt(12, 150, "assign_env_str", [value |-> "CartPole-v1"]),
       Stmt(12, 151, "GymEnvironment", NoArg),
       Stmt(12, 152, "print", NoArg),
       Stmt(12, 157, "close", NoArg) >>

\* "# CarPole-v1": environment information
Cell12 ==
    << Stmt(12, 150, "assign_env_str", [value |-> "CartPole-v1"]),
       Stmt(12, 151, "GymEnvironment", NoArg),
       Stmt(12, 152, "print", NoArg),
       Stmt(12, 157, "close", NoArg),
       Stmt(12, 158, "makedirs", NoArg) >>

\* Cell14 as it would be with the last statement, env.close(), left out.
Cell14NoClose ==
    << Stmt(14, 173, "GymEnvironment", NoArg),
       Stmt(14, 181, "VanillaQValueNetwork", NoArg),
       Stmt(14, 188, "PearlAgent",
            AgentArg("double_dqn_agent", "DoubleDQN",
                     "FIFOOffPolicyReplayBuffer", 10000, TRUE)),
       Stmt(14, 205, "online_learning",
            TrainArg("info_double_dqn", "double_dqn_agent", 750, 25, TRUE, 0)) >>

\* Cell14 as it would be with the on-policy buffer of the PPO cells.
Cell14OnPolicyBuffer ==
    << Stmt(14, 173, "GymEnvironment", NoArg),
       Stmt(14, 181, "VanillaQValueNetwork", NoArg),
       Stmt(14, 188, "PearlAgent",
            AgentArg("double_dqn_agent", "DoubleDQN",
                     "OnPolicyReplayBuffer", 10000, TRUE)),
       Stmt(14, 205, "online_learning",
            TrainArg("info_double_dqn", "double_dqn_agent", 750, 25, TRUE, 0)),
       Stmt(14, 215, "close", NoArg) >>

\* CartPole-v1, Double DQN
Cell14 ==
    << Stmt(14, 173, "GymEnvironment", NoArg),
       Stmt(14, 181, "VanillaQValueNetwork", NoArg),
       Stmt(14, 188, "PearlAgent",
            AgentArg("double_dqn_agent", "DoubleDQN",
                     "FIFOOffPolicyReplayBuffer", 10000, TRUE)),
       Stmt(14, 205, "online_learning",
            TrainArg("info_double_dqn", "double_dqn_agent", 750, 25, TRUE, 0)),
       Stmt(14, 215, "close", NoArg) >>

Cell15 ==
    << Stmt(15, 225, "save", InfoArg("info_double_dqn", "info_double_dqn_return.pt")),
       Stmt(15, 226, "plot", InfoArg("info_double_dqn", "info_double_dqn_return.pt")) >>

\* CartPole-v1, PPO
Cell17 ==
    << Stmt(17, 249, "GymEnvironment", NoArg),
       Stmt(17, 252, "PearlAgent",
            AgentArg("ppo_agent", "ProximalPolicyOptimization",
                     "OnPolicyReplayBuffer", 250000, FALSE)),
       Stmt(17, 270, "online_learning",
            TrainArg("info_ppo", "ppo_agent", 750, 25, TRUE, 0)),
       Stmt(17, 280, "close", NoArg) >>

Cell18 ==
    << Stmt(18, 290, "save", InfoArg("info_ppo", "info_ppo_return.pt")),
       Stmt(18, 291, "plot", InfoArg("info_ppo", "info_ppo_return.pt")) >>

\* "# LunarLander-v2": environment information
Cell20 ==
    << Stmt(20, 313, "assign_env_str", [value |-> "LunarLander-v2"]),
       Stmt(20, 314, "makedirs", NoArg),
       Stmt(20, 315, "GymEnvironment", NoArg),
       Stmt(20, 316, "print", NoArg),
       Stmt(20, 321, "close", NoArg),
       Stmt(20, 322, "makedirs", NoArg) >>

\* Cell22 as a copy of Cell14 that kept the CartPole-v1 buffer capacity.
Cell22CartPoleBuffer ==
    << Stmt(22, 337, "GymEnvironment", NoArg),
       Stmt(22, 346, "VanillaQValueNetwork", NoArg),
       Stmt(22, 354, "PearlAgent",
            AgentArg("double_dqn_agent", "DoubleDQN",
                     "FIFOOffPolicyReplayBuffer", 10000, TRUE)),
       Stmt(22, 370, "online_learning",
            TrainArg("info_double_dqn", "double_dqn_agent", 10000, 100, TRUE, 0)),
       Stmt(22, 380, "close", NoArg) >>

\* LunarLander-v2, Double DQN
Cell22 ==
    << Stmt(22, 337, "GymEnvironment", NoArg),
       Stmt(22, 346, "VanillaQValueNetwork", NoArg),
       Stmt(22, 354, "PearlAgent",
            AgentArg("double_dqn_agent", "DoubleDQN",
                     "FIFOOffPolicyReplayBuffer", 1000000, TRUE)),
       Stmt(22, 370, "online_learning",
            TrainArg("info_double_dqn", "double_dqn_agent", 10000, 100, TRUE, 0)),
       Stmt(22, 380, "close", NoArg) >>

Cell23 ==
    << Stmt(23, 397, "save", InfoArg("info_double_dqn", "info_double_dqn_return.pt")),
       Stmt(23, 398, "plot", InfoArg("info_double_dqn", "info_double_dqn_return.pt")) >>

\* Cell25 as it would be if it trained the agent of the cell before it.
Cell25StaleAgent ==
    << Stmt(25, 429, "GymEnvironment", NoArg),
       Stmt(25, 433, "PearlAgent",
            AgentArg("ppo_agent", "ProximalPolicyOptimization",
                     "OnPolicyReplayBuffer", 250000, FALSE)),
       Stmt(25, 453, "online_learning",
            TrainArg("info_ppo", "double_dqn_agent", 10000, 100, FALSE, 2048)),
       Stmt(25, 464, "close", NoArg) >>

\* Cell25 as it would be with the learn_after_episode=True of the earlier cells.
Cell25LearnAfterEpisode ==
    << Stmt(25, 429, "GymEnvironment", NoArg),
       Stmt(25, 433, "PearlAgent",
            AgentArg("ppo_agent", "ProximalPolicyOptimization",
                     "OnPolicyReplayBuffer", 250000, FALSE)),
       Stmt(25, 453, "online_learning",
            TrainArg("info_ppo", "ppo_agent", 10000, 100, TRUE, 2048)),
       Stmt(25, 464, "close", NoArg) >>

\* Cell25 as it would be with the FIFO buffer of the Double DQN cells.
Cell25FifoBuffer ==
    << Stmt(25, 429, "GymEnvironment", NoArg),
       Stmt(25, 433, "PearlAgent",
            AgentArg("ppo_agent", "ProximalPolicyOptimization",
                     "FIFOOffPolicyReplayBuffer", 250000, FALSE)),
       Stmt(25, 453, "online_learning",
            TrainArg("info_ppo", "ppo_agent", 10000, 100, FALSE, 2048)),
       Stmt(25, 464, "close", NoArg) >>

\* LunarLander-v2, PPO (discrete actions)
Cell25 ==
    << Stmt(25, 429, "GymEnvironment", NoArg),
       Stmt(25, 433, "PearlAgent",
            AgentArg("ppo_agent", "ProximalPolicyOptimization",
                     "OnPolicyReplayBuffer", 250000, FALSE)),
       Stmt(25, 453, "online_learning",
            TrainArg("info_ppo", "ppo_agent", 10000, 100, FALSE, 2048)),
       Stmt(25, 464, "close", NoArg) >>

Cell26 ==
    << Stmt(26, 476, "save", InfoArg("info_ppo", "info_ppo_return.pt")),
       Stmt(26, 477, "plot", InfoArg("info_ppo", "info_ppo_return.pt")) >>

\* Cell28 as it would be without the assignment to env_str.
Cell28NoAssign ==
    << Stmt(28, 500, "GymEnvironment", NoArg),
       Stmt(28, 501, "print", NoArg),
       Stmt(28, 506, "close", NoArg),
       Stmt(28, 507, "makedirs", NoArg) >>

\* "# LunarLanderContinuous-v2": environment information
Cell28 ==
    << Stmt(28, 499, "assign_env_str", [value |-> "LunarLanderContinuous-v2"]),
       Stmt(28, 500, "GymEnvironment", NoArg),
       Stmt(28, 501, "print", NoArg),
       Stmt(28, 506, "close", NoArg),
       Stmt(28, 507, "makedirs", NoArg) >>

\* Cell29 as it would be with the FIFO buffer of the Double DQN cells.
Cell29FifoBuffer ==
    << Stmt(29, 517, "GymEnvironment", NoArg),
       Stmt(29, 520, "PearlAgent",
            AgentArg("ppo_agent", "ContinuousProximalPolicyOptimization",
                     "FIFOOffPolicyReplayBuffer", 250000, FALSE)),
       Stmt(29, 538, "online_learning",
            TrainArg("info_ppo", "ppo_agent", 10000, 100, FALSE, 2048)),
       Stmt(29, 549, "close", NoArg) >>

\* LunarLanderContinuous-v2, PPO (continuous actions)
Cell29 ==
    << Stmt(29, 517, "GymEnvironment", NoArg),
       Stmt(29, 520, "PearlAgent",
            AgentArg("ppo_agent", "ContinuousProximalPolicyOptimization",
                     "OnPolicyReplayBuffer", 250000, FALSE)),
       Stmt(29, 538, "online_learning",
            TrainArg("info_ppo", "ppo_agent", 10000, 100, FALSE, 2048)),
       Stmt(29, 549, "close", NoArg) >>

Cell30 ==
    << Stmt(30, 559, "save", InfoArg("info_ppo", "info_ppo_return.pt")),
       Stmt(30, 560, "plot", InfoArg("info_ppo", "info_ppo_return.pt")) >>

Program ==
    Cell12 \o Cell14 \o Cell15 \o Cell17 \o Cell18 \o Cell20 \o Cell22
           \o Cell23 \o Cell25 \o Cell26 \o Cell28 \o Cell29 \o Cell30

Done == Len(Program) + 1

Running == pc \in 1..Len(Program)

Cur == Program[pc]

\* The first statement of the cell after the one statement i is in.
NextCellStart(i) ==
    LET later == {j \in (i + 1)..Len(Program) : Program[j].cell # Program[i].cell}
    IN  IF later = {} THEN Done
        ELSE CHOOSE j \in later : \A k \in later : j <= k

\* The cells that train an agent, and the cell that saves and plots each one's result.
ExperimentCells == {14, 17, 22, 25, 29}

SaveCellOf(c) == c + 1

Names == {"env", "q_value_network", "double_dqn_agent", "ppo_agent",
          "info_double_dqn", "info_ppo"}

(***************************************************************************)
(* The library calls, as the notebook sees them.                           *)
(***************************************************************************)
\* The calls of a cell that can raise: the environment factory, the network
\* and agent constructors and the training loop.
RaisingOps == {"GymEnvironment", "VanillaQValueNetwork", "PearlAgent", "online_learning"}

\* GymEnvironment(env_str): a new, open environment.
GymEnvironment(name, cell) == [env_str |-> name, open |-> TRUE, cell |-> cell]

\* VanillaQValueNetwork(state_dim=env.observation_space.shape[0],
\*                      action_dim=env.action_space.n, ...)
VanillaQValueNetwork(env, cell) == [env |-> env, cell |-> cell]

\* PearlAgent(policy_learner=..., replay_buffer=...): state_dim and action_space
\* are read from the global env, network_instance from q_value_network.
PearlAgent(arg, env, network, cell) ==
    [learner |-> arg.learner, buffer |-> arg.buffer, capacity |-> arg.capacity,
     env |-> env, network |-> IF arg.network THEN network ELSE 0, cell |-> cell]

\* ReturnLen as it would be if one value were recorded per record_period episodes.
ReturnLenPerRecordPeriod(number_of_episodes, record_period) ==
    number_of_episodes \div record_period

\* len(info["return"]) of the record online_learning returns: one episodic
\* return per completed episode of the episode budget.
ReturnLen(number_of_episodes, record_period) == number_of_episodes

\* One invocation of online_learning, with what it returned (len: the length
\* of info["return"]; 0 when the call raised).
online_learning(arg, agent, env, env_open, name, cell, returned) ==
    [cell |-> cell, var |-> arg.var, agent |-> agent, env |-> env,
     env_open |-> env_open, env_str |-> name,
     number_of_episodes |-> arg.number_of_episodes,
     record_period |-> arg.record_period,
     learn_after_episode |-> arg.learn_after_episode,
     learn_every_k_steps |-> arg.learn_every_k_steps,
     returned |-> returned,
     len |-> IF returned
             THEN ReturnLen(arg.number_of_episodes, arg.record_period)
             ELSE 0]

\* torch.save(obj, os.path.join(dir, name)): the file at that path now holds obj.
TorchSaveFiles(fs, dir, name, series) ==
    {f \in fs : ~(f.dir = dir /\ f.name = name)}
        \cup {[dir |-> dir, name |-> name, series |-> series]}

IdleLoop == [phase |-> "idle"]

NbInit ==
    /\ pc = 1
    /\ env_str = ""
    /\ kernel = [n \in Names |-> 0]
    /\ envs = <<>>
    /\ networks = <<>>
    /\ agents = <<>>
    /\ calls = <<>>
    /\ dirs = {}
    /\ files = {}
    /\ saves = <<>>
    /\ plots = <<>>
    /\ failed = {}

Init == NbInit /\ lp = IdleLoop

(***************************************************************************)
(* One action per kind of statement.                                       *)
(***************************************************************************)
\* env_str = "<name>"
AssignEnvStr ==
    /\ Running /\ Cur.op = "assign_env_str"
    /\ env_str' = Cur.arg.value
    /\ pc' = pc + 1
    /\ UNCHANGED <<kernel, envs, networks, agents, calls, dirs, files, saves,
                   plots, failed, lp>>

\* os.makedirs(env_str, exist_ok=True)
MakeDirs ==
    /\ Running /\ Cur.op = "makedirs"
    /\ dirs' = dirs \cup {env_str}
    /\ pc' = pc + 1
    /\ UNCHANGED <<env_str, kernel, envs, networks, agents, calls, files, saves,
                   plots, failed, lp>>

\* env = GymEnvironment(env_str), returning
GymEnvironmentCall ==
    /\ Running /\ Cur.op = "GymEnvironment"
    /\ envs' = Append(envs, GymEnvironment(env_str, Cur.cell))
    /\ kernel' = [kernel EXCEPT !["env"] = Len(envs) + 1]
    /\ pc' = pc + 1
    /\ UNCHANGED <<env_str, networks, agents, calls, dirs, files, saves, plots,
                   failed, lp>>

\* print(f"...{env.observation_space.shape[0]}") ...: reads the environment
PrintInfo ==
    /\ Running /\ Cur.op = "print"
    /\ kernel["env"] # 0
    /\ pc' = pc + 1
    /\ UNCHANGED <<env_str, kernel, envs, networks, agents, calls, dirs, files,
                   saves, plots, failed, lp>>

\* env.close()
EnvClose ==
    /\ Running /\ Cur.op = "close"
    /\ kernel["env"] # 0
    /\ envs' = [envs EXCEPT ![kernel["env"]].open = FALSE]
    /\ pc' = pc + 1
    /\ UNCHANGED <<env_str, kernel, networks, agents, calls, dirs, files, saves,
                   plots, failed, lp>>

\* q_value_network = VanillaQValueNetwork(...), returning
VanillaQValueNetworkCall ==
    /\ Running /\ Cur.op = "VanillaQValueNetwork"
    /\ networks' = Append(networks, VanillaQValueNetwork(kernel["env"], Cur.cell))
    /\ kernel' = [kernel EXCEPT !["q_value_network"] = Len(networks) + 1]
    /\ pc' = pc + 1
    /\ UNCHANGED <<env_str, envs, agents, calls, dirs, files, saves, plots,
                   failed, lp>>

\* double_dqn_agent = PearlAgent(...) / ppo_agent = PearlAgent(...), returning
PearlAgentCall ==
    /\ Running /\ Cur.op = "PearlAgent"
    /\ agents' = Append(agents, PearlAgent(Cur.arg, kernel["env"],
                                           kernel["q_value_network"], Cur.cell))
    /\ kernel' = [kernel EXCEPT ![Cur.arg.var] = Len(agents) + 1]
    /\ pc' = pc + 1
    /\ UNCHANGED <<env_str, envs, networks, calls, dirs, files, saves, plots,
                   failed, lp>>

\* info_double_dqn = online_learning(agent=..., env=env, ...), returning:
\* the target is bound to the returned record
OnlineLearningCall ==
    /\ Running /\ Cur.op = "online_learning"
    /\ calls' = Append(calls,
                       online_learning(Cur.arg, kernel[Cur.arg.agent], kernel["env"],
                                       envs[kernel["env"]].open, env_str, Cur.cell,
                                       TRUE))
    /\ kernel' = [kernel EXCEPT ![Cur.arg.var] = Len(calls) + 1]
    /\ pc' = pc + 1
    /\ UNCHANGED <<env_str, envs, networks, agents, dirs, files, saves, plots,
                   failed, lp>>

\* LibraryRaise as it would be with the cell's calls wrapped in try/finally:
\* the environment is closed before the exception leaves the cell.
LibraryRaiseFinally ==
    /\ Running /\ Cur.op \in RaisingOps
    /\ failed' = failed \cup {[cell |-> Cur.cell, line |-> Cur.line, op |-> Cur.op]}
    /\ calls' = IF Cur.op = "online_learning"
                THEN Append(calls,
                            online_learning(Cur.arg, kernel[Cur.arg.agent],
                                            kernel["env"], envs[kernel["env"]].open,
                                            env_str, Cur.cell, FALSE))
                ELSE calls
    /\ envs' = IF kernel["env"] # 0
               THEN [envs EXCEPT ![kernel["env"]].open = FALSE]
               ELSE envs
    /\ pc' = NextCellStart(pc)
    /\ UNCHANGED <<env_str, kernel, networks, agents, dirs, files, saves,
                   plots, lp>>

\* A library call raises: the exception leaves the cell, the rest of the cell
\* is not executed and the assignment's target is not bound.
LibraryRaise ==
    /\ Running /\ Cur.op \in RaisingOps
    /\ failed' = failed \cup {[cell |-> Cur.cell, line |-> Cur.line, op |-> Cur.op]}
    /\ calls' = IF Cur.op = "online_learning"
                THEN Append(calls,
                            online_learning(Cur.arg, kernel[Cur.arg.agent],
                                            kernel["env"], envs[kernel["env"]].open,
                                            env_str, Cur.cell, FALSE))
                ELSE calls
    /\ pc' = NextCellStart(pc)
    /\ UNCHANGED <<env_str, kernel, envs, networks, agents, dirs, files, saves,
                   plots, lp>>

\* torch.save(info["return"], os.path.join(env_str, name)): a NameError when
\* info was never bound, an OSError when the directory does not exist
TorchSave ==
    /\ Running /\ Cur.op = "save"
    /\ IF kernel[Cur.arg.var] = 0 \/ env_str \notin dirs
       THEN /\ failed' = failed \cup {[cell |-> Cur.cell, line |-> Cur.line, op |-> Cur.op]}
            /\ pc' = NextCellStart(pc)
            /\ UNCHANGED <<files, saves>>
       ELSE /\ files' = TorchSaveFiles(files, env_str, Cur.arg.name, kernel[Cur.arg.var])
            /\ saves' = Append(saves, [cell |-> Cur.cell, dir |-> env_str,
                                       name |-> Cur.arg.name,
                                       series |-> kernel[Cur.arg.var],
                                       replaced |-> \E f \in files :
                                           f.dir = env_str /\ f.name = Cur.arg.name])
            /\ pc' = pc + 1
            /\ UNCHANGED failed
    /\ UNCHANGED <<env_str, kernel, envs, networks, agents, calls, dirs, plots, lp>>

\* plt.plot(np.arange(len(info["return"])), info["return"], ...)
PltPlot ==
    /\ Running /\ Cur.op = "plot"
    /\ IF kernel[Cur.arg.var] = 0
       THEN /\ failed' = failed \cup {[cell |-> Cur.cell, line |-> Cur.line, op |-> Cur.op]}
            /\ pc' = NextCellStart(pc)
            /\ UNCHANGED plots
       ELSE /\ plots' = Append(plots, [cell |-> Cur.cell,
                                       series |-> kernel[Cur.arg.var],
                                       len |-> calls[kernel[Cur.arg.var]].len])
            /\ pc' = pc + 1
            /\ UNCHANGED failed
    /\ UNCHANGED <<env_str, kernel, envs, networks, agents, calls, dirs, files,
                   saves, lp>>

Next ==
    \/ AssignEnvStr
    \/ MakeDirs
    \/ GymEnvironmentCall
    \/ PrintInfo
    \/ EnvClose
    \/ VanillaQValueNetworkCall
    \/ PearlAgentCall
    \/ OnlineLearningCall
    \/ LibraryRaise
    \/ TorchSave
    \/ PltPlot

Spec == Init /\ [][Next]_vars

(***************************************************************************)
(* Inside one online_learning call.  The call's flags and the agent's      *)
(* buffer kind are those of one of the notebook's training statements; the *)
(* episode budget, the learning period and the buffer capacity are drawn   *)
(* from small ranges, keeping the order the notebook's literals have       *)
(* (learn_every_k_steps against the capacity).  An episode ends when the   *)
(* environment says so, after at most MaxEpisodeLen steps.                 *)
(***************************************************************************)
MaxEpisodes == 3

MaxEpisodeLen == 3

MaxK == 3

MaxCapacity == 4

\* The training statements of the notebook.
TrainStmts == {i \in 1..Len(Program) : Program[i].op = "online_learning"}

\* The PearlAgent statement that builds the agent training statement i passes.
AgentStmtOf(i) ==
    CHOOSE j \in 1..Len(Program) :
        /\ Program[j].op = "PearlAgent"
        /\ Program[j].cell = Program[i].cell
        /\ Program[j].arg.var = Program[i].arg.agent

\* The state of the call of training statement i at its first episode.
LoopStart(i, n, k, cap, offset) ==
    [phase |-> "step", cell |-> Program[i].cell,
     learn_after_episode |-> Program[i].arg.learn_after_episode,
     k_passed |-> Program[i].arg.learn_every_k_steps # 0,
     learn_every_k_steps |-> k, offset |-> offset,
     buffer_kind |-> Program[AgentStmtOf(i)].arg.buffer,
     learner |-> Program[AgentStmtOf(i)].arg.learner,
     capacity |-> cap, number_of_episodes |-> n,
     total_episodes |-> 0, total_steps |-> 0, episode_steps |-> 0,
     done |-> FALSE, buffer |-> <<>>, last |-> "reset",
     learned_at |-> {}, learns_episode |-> 0, returns |-> 0]

LoopInit ==
    /\ NbInit
    /\ \E i \in TrainStmts, n \in 1..MaxEpisodes, k \in 1..MaxK,
          cap \in 1..MaxCapacity :
          /\ IF Program[i].arg.learn_every_k_steps = 0
             THEN k = 1      \* not passed, and not read when learn_after_episode
             ELSE (k <= cap) <=> (Program[i].arg.learn_every_k_steps
                                      <= Program[AgentStmtOf(i)].arg.capacity)
          /\ \E offset \in 0..(k - 1) : lp = LoopStart(i, n, k, cap, offset)

\* replay_buffer.push: the buffer never holds more than its capacity; the
\* oldest transition leaves when a new one arrives at a full buffer.
Push(buffer, capacity, t) ==
    LET b == Append(buffer, t)
    IN  IF Len(b) > capacity THEN Tail(b) ELSE b

\* agent.learn(): an on-policy buffer is cleared by the update, a FIFO
\* off-policy buffer keeps its transitions.
AfterLearn(buffer, kind) ==
    IF kind = "OnPolicyReplayBuffer" THEN <<>> ELSE buffer

\* Whether the per-step cadence learns after the s-th environment step of the call.
LearnDue(l, s) ==
    /\ ~l.learn_after_episode
    /\ (s + l.offset) % l.learn_every_k_steps = 0

\* The number of environment steps of the call so far.
StepsSoFar(l) == l.total_steps + l.episode_steps

\* One environment interaction: agent.act, env.step, agent.observe (the
\* transition goes to the replay buffer).
LoopStep ==
    /\ lp.phase = "step"
    /\ \E d \in BOOLEAN :
          /\ (lp.episode_steps + 1 = MaxEpisodeLen) => d
          /\ lp' = [lp EXCEPT
                      !.buffer = Push(lp.buffer, lp.capacity, StepsSoFar(lp) + 1),
                      !.episode_steps = lp.episode_steps + 1,
                      !.done = d,
                      !.last = "push",
                      !.phase = IF LearnDue(lp, StepsSoFar(lp) + 1) THEN "learn"
                                ELSE IF d THEN "episode_end" ELSE "step"]
    /\ UNCHANGED nbvars

\* agent.learn() after an environment interaction (per-step cadence).
LoopLearnStep ==
    /\ lp.phase = "learn"
    /\ lp' = [lp EXCEPT
                !.buffer = AfterLearn(lp.buffer, lp.buffer_kind),
                !.learned_at = lp.learned_at \cup {StepsSoFar(lp)},
                !.last = "learn",
                !.phase = IF lp.done THEN "episode_end" ELSE "step"]
    /\ UNCHANGED nbvars

\* The end of run_episode and of one turn of online_learning's loop:
\* agent.learn() when learn_after_episode, the episode's return is recorded,
\* and the loop goes on while the episode budget is not used up.
LoopEpisodeEnd ==
    /\ lp.phase = "episode_end"
    /\ lp' = [lp EXCEPT
                !.buffer = IF lp.learn_after_episode
                           THEN AfterLearn(lp.buffer, lp.buffer_kind)
                           ELSE lp.buffer,
                !.learns_episode = IF lp.learn_after_episode
                                   THEN lp.learns_episode + 1
                                   ELSE lp.learns_episode,
                !.last = IF lp.learn_after_episode THEN "learn" ELSE lp.last,
                !.total_steps = lp.total_steps + lp.episode_steps,
                !.episode_steps = 0,
                !.done = FALSE,
                !.total_episodes = lp.total_episodes + 1,
                !.returns = lp.returns + 1,
                !.phase = IF lp.total_episodes + 1 >= lp.number_of_episodes
                          THEN "returned" ELSE "step"]
    /\ UNCHANGED nbvars

LoopNext == LoopStep \/ LoopLearnStep \/ LoopEpisodeEnd

LoopSpec == LoopInit /\ [][LoopNext]_vars

(***************************************************************************)
(* Properties of the cells (Spec).                                         *)
(***************************************************************************)
Range(seq) == {seq[i] : i \in 1..Len(seq)}

\* Whether the training call of experiment cell c returned.
Trained(c) == \E i \in 1..Len(calls) : calls[i].cell = c /\ calls[i].returned

OpenEnvs == {e \in 1..Len(envs) : envs[e].open}

InfoNames == {"info_double_dqn", "info_ppo"}

FileNameOf(var) ==
    IF var = "info_double_dqn" THEN "info_double_dqn_return.pt"
    ELSE "info_ppo_return.pt"

\* number_of_episodes as claim C1 reads it off the five cells.
EpisodesOf(c) == IF c \in {14, 17} THEN 750 ELSE 10000

RecordPeriodOf(c) == IF c \in {14, 17} THEN 25 ELSE 100

C2_LunarLanderBuffer ==
    \A i \in 1..Len(calls) :
        (calls[i].env_str = "LunarLander-v2" /\ calls[i].var = "info_double_dqn") =>
            /\ calls[i].agent # 0
            /\ agents[calls[i].agent].learner = "DoubleDQN"
            /\ agents[calls[i].agent].buffer = "FIFOOffPolicyReplayBuffer"
            /\ agents[calls[i].agent].capacity = 1000000
            /\ agents[calls[i].agent].capacity # 10000

C2_Witness ==
    \E i \in 1..Len(calls) :
        /\ calls[i].env_str = "LunarLander-v2"
        /\ calls[i].var = "info_double_dqn"
        /\ calls[i].returned
        /\ \E j \in 1..Len(agents) : agents[j].capacity = 10000

\* C3: every online_learning call receives the agent and the environment
\* constructed in its own cell, the environment being one for the current
\* env_str and the one the agent's (and the network's) dimensions were read
\* from; no agent and no environment is passed to two calls; a cell makes at
\* most one call, only the five experiment cells make one, and a run in which
\* nothing raised has made exactly five when it ends.
C3_OneCallPerExperiment ==
    /\ \A i \in 1..Len(calls) :
           LET c == calls[i] IN
           /\ c.cell \in ExperimentCells
           /\ c.agent # 0 /\ c.env # 0
           /\ agents[c.agent].cell = c.cell
           /\ envs[c.env].cell = c.cell
           /\ envs[c.env].env_str = c.env_str
           /\ agents[c.agent].env = c.env
           /\ agents[c.agent].network # 0 =>
                  /\ networks[agents[c.agent].network].cell = c.cell
                  /\ networks[agents[c.agent].network].env = c.env
    /\ \A i, j \in 1..Len(calls) :
           i # j => /\ calls[i].cell # calls[j].cell
                    /\ calls[i].agent # calls[j].agent
                    /\ calls[i].env # calls[j].env
    /\ (pc = Done /\ failed = {}) =>
           /\ Len(calls) = 5
           /\ {calls[i].cell : i \in 1..Len(calls)} = ExperimentCells

C3_Witness ==
    /\ pc = Done /\ failed = {}
    /\ Len(calls) = 5 /\ Len(agents) = 5 /\ Len(envs) = 8

\* C4: a torch.save never writes to a path an earlier torch.save wrote to;
\* when the training call of the experiment cell before it returned, it
\* writes the series that call returned, under the directory of the env_str
\* the call ran with and the file name of that call's algorithm; and after a
\* run in which nothing raised, the five files hold the five series, each
\* under its own environment and algorithm.
C4_SavedSeries ==
    /\ \A k \in 1..Len(saves) :
           LET s == saves[k] IN
           /\ ~s.replaced
           /\ \A j \in 1..Len(saves) :
                  j # k => ~(saves[j].dir = s.dir /\ saves[j].name = s.name)
           /\ Trained(s.cell - 1) =>
                  /\ calls[s.series].cell = s.cell - 1
                  /\ calls[s.series].returned
                  /\ calls[s.series].env_str = s.dir
                  /\ FileNameOf(calls[s.series].var) = s.name
    /\ (pc = Done /\ failed = {}) =>
           /\ Cardinality(files) = 5
           /\ \A i \in 1..Len(calls) :
                  [dir |-> calls[i].env_str, name |-> FileNameOf(calls[i].var),
                   series |-> i] \in files

C4_Witness ==
    /\ pc = Done /\ failed = {}
    /\ Cardinality(files) = 5
    /\ Cardinality({f.dir : f \in files}) = 3

\* C5: as long as nothing has raised, at most one environment is open, none
\* is open when GymEnvironment is about to be called or when the notebook has
\* ended, and every online_learning call was made on an open environment.
C5_EnvLifecycle ==
    failed = {} =>
        /\ Cardinality(OpenEnvs) <= 1
        /\ (Running /\ Cur.op = "GymEnvironment") => OpenEnvs = {}
        /\ pc = Done => OpenEnvs = {}
        /\ \A i \in 1..Len(calls) : calls[i].env_open
        /\ (Running /\ Cur.op = "online_learning") => OpenEnvs = {kernel["env"]}

C5_Witness ==
    /\ failed = {}
    /\ Running /\ Cur.op = "online_learning" /\ Cur.cell = 29
    /\ Len(envs) = 8 /\ OpenEnvs = {8}

\* C7: when GymEnvironment, a constructor or online_learning raised in an
\* experiment cell, the failure is on record, no later statement of the cell
\* runs, env.close() was not executed (the environment the cell opened, if
\* it got that far, stays open), nothing built by a later statement of the
\* cell exists, and info_double_dqn / info_ppo are not bound to a series of
\* that cell's training call.
C7_FailurePropagates ==
    \A f \in failed :
        (f.op \in RaisingOps /\ f.cell \in ExperimentCells) =>
            /\ ~(Running /\ Cur.cell = f.cell)
            /\ ~Trained(f.cell)
            /\ \A n \in InfoNames :
                   kernel[n] # 0 => /\ calls[kernel[n]].cell # f.cell
                                    /\ calls[kernel[n]].returned
            /\ \A e \in 1..Len(envs) : envs[e].cell = f.cell => envs[e].open
            /\ (f.op = "GymEnvironment") =>
                   ~\E e \in 1..Len(envs) : envs[e].cell = f.cell
            /\ (f.op # "GymEnvironment") =>
                   \E e \in 1..Len(envs) : envs[e].cell = f.cell
            /\ (f.op \in {"GymEnvironment", "VanillaQValueNetwork"}) =>
                   ~\E a \in 1..Len(agents) : agents[a].cell = f.cell
            /\ (f.op # "online_learning") =>
                   ~\E i \in 1..Len(calls) : calls[i].cell = f.cell
            /\ \A s \in Range(saves) : s.cell # f.cell

C7_Witness ==
    /\ pc = Done
    /\ \E f \in failed : f.op = "online_learning" /\ f.cell = 22
    /\ \E f \in failed : f.op = "PearlAgent" /\ f.cell = 29
    /\ \E e \in 1..Len(envs) : envs[e].cell = 22 /\ envs[e].open
    /\ kernel["info_double_dqn"] # 0

\* C10: every agent the notebook constructs pairs a DoubleDQN learner with a
\* FIFOOffPolicyReplayBuffer and a ProximalPolicyOptimization or
\* ContinuousProximalPolicyOptimization learner with an OnPolicyReplayBuffer.
C10_BufferMatchesLearner ==
    \A a \in 1..Len(agents) :
        /\ agents[a].learner \in {"DoubleDQN", "ProximalPolicyOptimization",
                                  "ContinuousProximalPolicyOptimization"}
        /\ (agents[a].learner = "DoubleDQN") <=>
               (agents[a].buffer = "FIFOOffPolicyReplayBuffer")
        /\ (agents[a].learner # "DoubleDQN") <=>
               (agents[a].buffer = "OnPolicyReplayBuffer")

C10_Witness ==
    /\ Len(agents) = 5
    /\ {agents[a].learner : a \in 1..Len(agents)} =
           {"DoubleDQN", "ProximalPolicyOptimization",
            "ContinuousProximalPolicyOptimization"}

(***************************************************************************)
(* Properties of one online_learning call (LoopSpec).                      *)
(***************************************************************************)
\* The environment steps of the call, up to now, after which the per-step
\* cadence of period k learns.
DueSteps(l) ==
    {t \in 1..StepsSoFar(l) : (t + l.offset) % l.learn_every_k_steps = 0}

\* C6: the three calls with learn_after_episode=True (cells 14, 17, 22) pass
\* no learn_every_k_steps and learn once at the end of every episode and
\* never after a single environment step; the two calls with
\* learn_after_episode=False (cells 25, 29) pass learn_every_k_steps=2048,
\* never learn at the end of an episode and learn after every k-th
\* environment step, no such step being skipped.
C6_LearningCadence ==
    /\ \A i \in TrainStmts :
           /\ Program[i].arg.learn_after_episode <=> (Program[i].cell \in {14, 17, 22})
           /\ Program[i].arg.learn_every_k_steps =
                  (IF Program[i].cell \in {25, 29} THEN 2048 ELSE 0)
    /\ lp.cell \in {14, 17, 22} =>
           /\ lp.learn_after_episode /\ ~lp.k_passed
           /\ lp.learned_at = {}
           /\ lp.phase # "learn"
           /\ lp.learns_episode = lp.total_episodes
    /\ lp.cell \in {25, 29} =>
           /\ ~lp.learn_after_episode /\ lp.k_passed
           /\ lp.learns_episode = 0
           /\ lp.learned_at =
                  DueSteps(lp) \ (IF lp.phase = "learn" THEN {StepsSoFar(lp)} ELSE {})
           /\ \A t, u \in lp.learned_at :
                  t < u => (u - t) % lp.learn_every_k_steps = 0

C6_Witness ==
    /\ lp.cell = 25
    /\ lp.phase = "returned"
    /\ lp.total_episodes >= 2
    /\ Cardinality(lp.learned_at) >= 2

\* C8: in the three PPO calls (cells 17, 25, 29) the buffer is an
\* OnPolicyReplayBuffer of capacity 250,000, it is empty after every learning
\* update, it never holds more than learn_every_k_steps transitions in the
\* per-step calls (cells 25, 29) nor more than the current episode's
\* transitions in the per-episode call (cell 17), and never more than its
\* capacity.
C8_OnPolicyOccupancy ==
    /\ \A i \in TrainStmts :
           Program[i].cell \in {17, 25, 29} =>
               /\ Program[AgentStmtOf(i)].arg.buffer = "OnPolicyReplayBuffer"
               /\ Program[AgentStmtOf(i)].arg.capacity = 250000
    /\ lp.cell \in {17, 25, 29} =>
           /\ Len(lp.buffer) <= lp.capacity
           /\ lp.last = "learn" => lp.buffer = <<>>
           /\ lp.cell \in {25, 29} => Len(lp.buffer) <= lp.learn_every_k_steps
           /\ lp.cell = 17 => Len(lp.buffer) <= lp.episode_steps

C8_Witness ==
    /\ lp.cell = 29
    /\ lp.phase = "learn"
    /\ Len(lp.buffer) = lp.learn_every_k_steps
    /\ lp.learn_every_k_steps < lp.capacity
    /\ lp.learned_at # {}
    /\ lp.total_episodes >= 1

\* C9: in the two Double DQN calls (cells 14, 22) the buffer is a
\* FIFOOffPolicyReplayBuffer of capacity 10,000, respectively 1,000,000; it
\* never holds more transitions than its capacity, although the call may
\* produce more; it holds the most recent transitions in the order they were
\* stored, so that a transition stored into a full buffer replaces the
\* oldest one and a learning update removes none.
C9_FifoOccupancy ==
    /\ \A i \in TrainStmts :
           Program[i].cell \in {14, 22} =>
               /\ Program[AgentStmtOf(i)].arg.buffer = "FIFOOffPolicyReplayBuffer"
               /\ Program[AgentStmtOf(i)].arg.capacity =
                      (IF Program[i].cell = 14 THEN 10000 ELSE 1000000)
    /\ lp.cell \in {14, 22} =>
           /\ Len(lp.buffer) <= lp.capacity
           /\ Len(lp.buffer) = (IF StepsSoFar(lp) < lp.capacity
                                THEN StepsSoFar(lp) ELSE lp.capacity)
           /\ \A j \in 1..Len(lp.buffer) :
                  lp.buffer[j] = StepsSoFar(lp) - Len(lp.buffer) + j

C9_Witness ==
    /\ lp.cell = 14
    /\ lp.last = "learn"
    /\ lp.learns_episode >= 2
    /\ StepsSoFar(lp) > lp.capacity + 1
    /\ Len(lp.buffer) = lp.capacity
    /\ lp.capacity >= 2

(***************************************************************************)
(* The output directories (Spec).                                          *)
(***************************************************************************)
\* The cell that assigns env_str the value v and creates its directory.
InfoCellOf(v) ==
    IF v = "CartPole-v1" THEN 12
    ELSE IF v = "LunarLander-v2" THEN 20 ELSE 28

\* The values env_str has been assigned by the statements executed so far.
AssignedSoFar ==
    {Program[i].arg.value :
        i \in {j \in 1..(pc - 1) : Program[j].op = "assign_env_str"}}

\* Every directory was created by os.makedirs(env_str) after env_str was
\* assigned its name; every file torch.save wrote lies in a directory that
\* exists; and torch.save is only reached with the directory of the current
\* env_str in place, unless a call of the cell that creates it raised.
C11_DirectoryState ==
    /\ dirs \subseteq AssignedSoFar
    /\ \A s \in Range(saves) : s.dir \in dirs
    /\ \A f \in files : f.dir \in dirs
    /\ (/\ Running /\ Cur.op = "save"
        /\ ~\E f \in failed : f.cell = InfoCellOf(env_str)) => env_str \in dirs

\* os.makedirs(env_str, exist_ok=True) on a directory that exists (the second
\* call of cell 20): it does not raise and changes neither the directories
\* nor the files.
C11_MakedirsRepeated ==
    (Running /\ Cur.op = "makedirs" /\ env_str \in dirs) =>
        /\ dirs' = dirs
        /\ files' = files
        /\ failed' = failed
        /\ pc' = pc + 1

\* C11: the output directory of an experiment exists before anything is
\* saved into it: for each of the three values of env_str, os.makedirs(env_str,
\* exist_ok=True) is executed after env_str is assigned that value and before
\* a torch.save writes a file under that directory, and repeating the makedirs
\* call, as cell 20 does, leaves the directories and files as they are.
C11_DirectoryBeforeSave == []C11_DirectoryState /\ [][C11_MakedirsRepeated]_vars

C11_Witness ==
    /\ pc = Done
    /\ dirs = {"CartPole-v1", "LunarLander-v2", "LunarLanderContinuous-v2"}
    /\ \A d \in dirs : \E f \in files : f.dir = d
    /\ \E f \in failed : f.cell = 20 /\ f.op = "GymEnvironment"

====
